---------------------------- MODULE Spec2Model ----------------------------
(***************************************************************************)
(* A model of two files of Pulser:                                         *)
(*   pulser/channels/dmm.py               (DMM, _dmm_id_from_name,         *)
(*                                         _get_dmm_name)                  *)
(*   pulser/json/abstract_repr/validation.py  (registry,                   *)
(*                                         resolve_references, VALIDATORS) *)
(*                                                                         *)
(* Four specifications share the variables:                                *)
(*   SpecNames    the channel-name bookkeeping of dmm.py                   *)
(*   SpecDMM      construction of a DMM and validate_pulse                 *)
(*   SpecResolve  one call of resolve_references on a document             *)
(*   SpecFastInit the module initialisation under USE_FASTJSONSCHEMA       *)
(* Each specification keeps the variables of the others at their idle      *)
(* values.                                                                 *)
(***************************************************************************)
EXTENDS Integers, Sequences, FiniteSets, TLC

VARIABLES
    \* ---- dmm.py, naming helpers
    dmm_id,          \* the id being added (a string: a tuple of characters)
    channels,        \* the list of channel names
    produced,        \* the names _get_dmm_name returned, in call order
    init_channels,   \* channels as it was before the first addition
    \* ---- dmm.py, class DMM
    descriptor,      \* the last DMM construction: [state, bottom_detuning]
    ctor_arg,        \* the bottom_detuning argument of the last construction
    samples,         \* pulse.detuning.samples of the last validate_pulse
    round_detuning,  \* np.round(samples, decimals=6) of that call
    base_ok,         \* whether Channel.validate_pulse accepted that pulse
    outcome,         \* how that validate_pulse call ended
    \* ---- validation.py
    heap,            \* the Python objects: a sequence of nodes, address = index
    registry,        \* registry: key -> address of the fragment
    schema,          \* the argument of the last resolve_references call
    result,          \* the value it returned
    heap0,           \* the heap just before that call
    SCHEMAS,         \* address of the SCHEMAS dict: name -> schema
    VALIDATORS,      \* VALIDATORS: name -> resolved schema handed to compile
    registry0,       \* the content of every registry fragment when it was built
    pc               \* position of the running specification

namesVars == <<dmm_id, channels, produced, init_channels>>
dmmVars == <<descriptor, ctor_arg, samples, round_detuning, base_ok, outcome>>
resolveVars == <<heap, registry, schema, result, heap0>>
initVars == <<SCHEMAS, VALIDATORS, registry0>>
vars == <<namesVars, dmmVars, resolveVars, initVars, pc>>

Min(a, b) == IF a <= b THEN a ELSE b

(***************************************************************************)
(* Bounds of the model.                                                    *)
(***************************************************************************)
MaxIdLen == 4        \* longest dmm id / pre-existing channel name
MaxInitChannels == 1 \* channel names present before the first addition
MaxAdds == 3         \* additions of the same id
MaxSamples == 2      \* samples of a detuning waveform
MaxDepth == 3        \* nesting depth of a schema document

(***************************************************************************)
(* Strings are tuples of one-character strings, so that split and join     *)
(* are computed as Python computes them.                                   *)
(***************************************************************************)
Alphabet == {"d", "_"}

RECURSIVE StringsOfLen(_)
StringsOfLen(n) ==
    IF n = 0 THEN {<<>>}
    ELSE {<<c>> \o s : c \in Alphabet, s \in StringsOfLen(n - 1)}

\* ids and channel names: the non-empty strings that start with a letter
Names == {s \in UNION {StringsOfLen(n) : n \in 1..MaxIdLen} : s[1] # "_"}

\* str.split(sep): the pieces between the occurrences of sep, at least one piece
RECURSIVE split(_, _)
split(s, sep) ==
    IF \A i \in 1..Len(s) : s[i] # sep THEN <<s>>
    ELSE LET i == CHOOSE k \in 1..Len(s) :
                      s[k] = sep /\ \A j \in 1..(k - 1) : s[j] # sep
         IN <<SubSeq(s, 1, i - 1)>> \o split(SubSeq(s, i + 1, Len(s)), sep)

\* sep.join(parts)
RECURSIVE join(_, _)
join(sep, parts) ==
    IF parts = <<>> THEN <<>>
    ELSE IF Len(parts) = 1 THEN parts[1]
    ELSE parts[1] \o <<sep>> \o join(sep, Tail(parts))

\* parts[0:n]
SliceTo(parts, n) == SubSeq(parts, 1, Min(n, Len(parts)))

Digits == <<"0", "1", "2", "3", "4", "5", "6", "7", "8", "9">>

\* f"{n}" for a natural number
RECURSIVE str(_)
str(n) == IF n < 10 THEN <<Digits[n + 1]>>
          ELSE str(n \div 10) \o <<Digits[(n % 10) + 1]>>

\* "_".join(dmm_name.split("_")[0:2])
_dmm_id_from_name(dmm_name) == join("_", SliceTo(split(dmm_name, "_"), 2))

\* counts the names of chans that convert back to id; the bare id when none
_get_dmm_name(id, chans) ==
    LET dmm_count == Cardinality({i \in 1..Len(chans) :
                                     _dmm_id_from_name(chans[i]) = id})
    IN IF dmm_count = 0 THEN id ELSE id \o <<"_">> \o str(dmm_count)

InitChannelLists == UNION {[1..n -> Names] : n \in 0..MaxInitChannels}

(***************************************************************************)
(* Idle values of each group of variables.                                 *)
(***************************************************************************)
\* An Optional[float]: None, or micro * 1e-6 + nano * 1e-9 with 0 <= nano < 1000.
\* Two integers keep the value exact to 1e-9 without leaving TLC's integers.
NoneF == [set |-> FALSE, micro |-> 0, nano |-> 0]
F(m, n) == [set |-> TRUE, micro |-> m, nano |-> n]

\* A value of a document: a scalar (ptr = 0) or the address of a dict or list.
Scalar(s) == [ptr |-> 0, str |-> s]
Ptr(a) == [ptr |-> a, str |-> ""]
NoValue == Scalar("<no value>")

NamesIdle ==
    /\ dmm_id = <<>>
    /\ channels = <<>>
    /\ produced = <<>>
    /\ init_channels = <<>>

DMMIdle ==
    /\ descriptor = [state |-> "none", bottom_detuning |-> NoneF]
    /\ ctor_arg = NoneF
    /\ samples = <<>>
    /\ round_detuning = <<>>
    /\ base_ok = TRUE
    /\ outcome = "none"

ResolveIdle ==
    /\ heap = <<>>
    /\ registry = <<>>
    /\ schema = NoValue
    /\ result = NoValue
    /\ heap0 = <<>>

FastInitIdle ==
    /\ SCHEMAS = 0
    /\ VALIDATORS = <<>>
    /\ registry0 = <<>>

(***************************************************************************)
(* SpecNames: an id is added to a channel list MaxAdds times; each name    *)
(* _get_dmm_name returns is appended to the list before the next call.     *)
(***************************************************************************)
InitNames ==
    /\ dmm_id \in Names
    /\ init_channels \in InitChannelLists
    /\ channels = init_channels
    /\ produced = <<>>
    /\ DMMIdle /\ ResolveIdle /\ FastInitIdle
    /\ pc = "names"

AddDmm ==
    /\ pc = "names"
    /\ Len(produced) < MaxAdds
    /\ LET name == _get_dmm_name(dmm_id, channels)
       IN /\ channels' = Append(channels, name)
          /\ produced' = Append(produced, name)
    /\ UNCHANGED <<dmm_id, init_channels, dmmVars, resolveVars, initVars, pc>>

NextNames == AddDmm

SpecNames == InitNames /\ [][NextNames]_vars


(***************************************************************************)
(* Claims about the naming helpers.                                        *)
(***************************************************************************)
\* ids of exactly two "_"-separated tokens, such as dmm_0
TwoTokens(id) == Len(split(id, "_")) = 2

NoNameOfId == \A i \in 1..Len(init_channels) :
                  _dmm_id_from_name(init_channels[i]) # dmm_id

\* the k-th name of the counted-suffix scheme: id, id_1, id_2, ...
CountedName(id, k) == IF k = 1 THEN id ELSE id \o <<"_">> \o str(k - 1)

\* C7 as stated: every name _get_dmm_name produced for dmm_id converts back
\* to dmm_id under _dmm_id_from_name, for any id and any starting list.
C7_Original ==
    \A i \in 1..Len(produced) : _dmm_id_from_name(produced[i]) = dmm_id

\* Where the round trip of C7 does hold: the ids of exactly two tokens
\* (dmm_0: dmm_0, dmm_0_1, dmm_0_2 all convert back to dmm_0).
C7_RoundTrip == TwoTokens(dmm_id) => C7_Original

C7_Witness ==
    /\ TwoTokens(dmm_id)
    /\ Len(produced) >= 3
    /\ \A i \in 1..Len(produced) : _dmm_id_from_name(produced[i]) = dmm_id

\* C8 as stated: when the list initially holds no name of dmm_id, the k names
\* produced are id, id_1, ..., id_(k-1) in that order, pairwise distinct and
\* distinct from every name already in the list.
C8_Original ==
    NoNameOfId =>
        /\ \A i \in 1..Len(produced) : produced[i] = CountedName(dmm_id, i)
        /\ \A i, j \in 1..Len(produced) : i # j => produced[i] # produced[j]
        /\ \A i \in 1..Len(produced), j \in 1..Len(init_channels) :
               produced[i] # init_channels[j]

\* Where the naming of C8 does hold: the ids of exactly two tokens.
C8_CountedSuffix == TwoTokens(dmm_id) => C8_Original

C8_Witness ==
    /\ TwoTokens(dmm_id)
    /\ NoNameOfId
    /\ Len(init_channels) >= 1
    /\ Len(produced) >= 3
    /\ produced[3] = dmm_id \o <<"_", "2">>

(***************************************************************************)
(* SpecDMM: DMM(bottom_detuning=...) is constructed, and a pulse is        *)
(* validated against the descriptor that construction returned. The        *)
(* descriptor is frozen and validate_pulse reads only it and the pulse, so *)
(* one validation per construction shows every outcome.                    *)
(***************************************************************************)
decimals == 6   \* np.round(..., decimals=6): one unit of micro
\* half of 1e-6, in units of 1e-9
HalfUnit == (10 ^ (9 - decimals)) \div 2

IsZero(x) == x.micro = 0 /\ x.nano = 0
IsPositive(x) == x.micro > 0 \/ (x.micro = 0 /\ x.nano > 0)
IsNegative(x) == x.micro < 0
\* Python truthiness of an Optional[float]: None and 0.0 are false
Truthy(x) == x.set /\ ~IsZero(x)

\* the mutant of np_round: truncates towards minus infinity
np_round_floor(x) == {x.micro}

\* np.round(x, decimals=6) in units of 1e-6: the nearest multiple. A decimal
\* tie is not a binary tie, so either neighbour may come out of the floats.
np_round(x) ==
    IF x.nano < HalfUnit THEN {x.micro}
    ELSE IF x.nano > HalfUnit THEN {x.micro + 1}
    ELSE {x.micro, x.micro + 1}

\* np.round of a whole array of samples: every outcome the floats allow
RoundedArrays(pulse) ==
    { r \in [1..Len(pulse) -> UNION {np_round(pulse[i]) : i \in 1..Len(pulse)}] :
          \A i \in 1..Len(pulse) : r[i] \in np_round(pulse[i]) }

\* r > 0 and r < b for a rounded sample r (an integer count of 1e-6)
RoundedPositive(r) == r > 0
RoundedBelow(r, b) == r < b.micro \/ (r = b.micro /\ b.nano > 0)

BottomDetunings ==
    { NoneF, F(-10000000, 0), F(-1, 0), F(-1, 999), F(0, 0), F(0, 1),
      F(5000000, 0) }

SampleValues ==
    { F(0, 0), F(0, 1), F(0, 500), F(0, 600), F(1, 0), F(-1, 999),
      F(-5000000, 0), F(-10000000, 0), F(-10000001, 900), F(-10000001, 0) }

Pulses == UNION {[1..n -> SampleValues] : n \in 1..MaxSamples}

InitDMM ==
    /\ DMMIdle
    /\ NamesIdle /\ ResolveIdle /\ FastInitIdle
    /\ pc = "dmm"

\* DMM.__post_init__: Channel.__post_init__ may raise; then the check of
\* bottom_detuning. A construction that raises yields no descriptor.
PostInit(arg, post_ok) ==
    IF ~post_ok THEN [state |-> "base_error", bottom_detuning |-> NoneF]
    ELSE IF Truthy(arg) /\ IsPositive(arg)
         THEN [state |-> "ValueError", bottom_detuning |-> NoneF]
    ELSE [state |-> "built", bottom_detuning |-> arg]

Construct ==
    /\ pc \in {"dmm", "validated"}
    /\ \E arg \in BottomDetunings, post_ok \in BOOLEAN :
          /\ ctor_arg' = arg
          /\ descriptor' = PostInit(arg, post_ok)
    /\ samples' = <<>>
    /\ round_detuning' = <<>>
    /\ base_ok' = TRUE
    /\ outcome' = "none"
    /\ pc' = "dmm"
    /\ UNCHANGED <<namesVars, resolveVars, initVars>>

\* the mutant of PulseOutcome: the two range checks in the other order
PulseOutcomeBottomFirst(bottom_detuning, ok, rounded) ==
    IF ~ok THEN "base_error"
    ELSE IF bottom_detuning.set
            /\ \E i \in 1..Len(rounded) : RoundedBelow(rounded[i], bottom_detuning)
         THEN "below"
    ELSE IF \E i \in 1..Len(rounded) : RoundedPositive(rounded[i])
         THEN "positive"
    ELSE "ok"

\* DMM.validate_pulse after the rounding: which raise, if any, ends the call
PulseOutcome(bottom_detuning, ok, rounded) ==
    IF ~ok THEN "base_error"
    ELSE IF \E i \in 1..Len(rounded) : RoundedPositive(rounded[i])
         THEN "positive"
    ELSE IF bottom_detuning.set
            /\ \E i \in 1..Len(rounded) : RoundedBelow(rounded[i], bottom_detuning)
         THEN "below"
    ELSE "ok"

ValidatePulse ==
    /\ pc = "dmm"
    /\ descriptor.state = "built"
    /\ \E pulse \in Pulses, ok \in BOOLEAN :
          \E rounded \in RoundedArrays(pulse) :
              /\ samples' = pulse
              /\ base_ok' = ok
              /\ round_detuning' = IF ok THEN rounded ELSE <<>>
              /\ outcome' = PulseOutcome(descriptor.bottom_detuning, ok, rounded)
    /\ pc' = "validated"
    /\ UNCHANGED <<descriptor, ctor_arg, namesVars, resolveVars, initVars>>

NextDMM == Construct \/ ValidatePulse

SpecDMM == InitDMM /\ [][NextDMM]_vars

(***************************************************************************)
(* Claims about the DMM descriptor.                                        *)
(***************************************************************************)
\* C5: a descriptor that construction returned has bottom_detuning unset or
\* strictly negative (so a provided value that is not strictly negative
\* never yields a descriptor).
C5_BottomStrictlyNegative ==
    descriptor.state = "built" =>
        \/ ~descriptor.bottom_detuning.set
        \/ IsNegative(descriptor.bottom_detuning)

Minus10 == F(-10000000, 0)
OneNano == F(0, 1)                    \* 1e-9
JustBelowMinus10 == F(-10000001, 900) \* -10.0000001
MicroBelowMinus10 == F(-10000001, 0)  \* -10.000001

\* a sample that lies in [-10, 0] before any rounding
ExactlyInRange(x) == IsZero(x) \/ (x.micro >= Minus10.micro /\ x.micro <= -1)

ValidatedAgainstMinus10 ==
    /\ descriptor.state = "built"
    /\ descriptor.bottom_detuning = Minus10
    /\ outcome # "none"
    /\ base_ok

\* C6 as stated: with bottom_detuning = -10, a pulse whose samples are 1e-9
\* or in range is accepted, and a pulse with a sample -10.0000001 is rejected.
C6_Original ==
    ValidatedAgainstMinus10 =>
        /\ (\A i \in 1..Len(samples) :
                samples[i] = OneNano \/ ExactlyInRange(samples[i]))
               => outcome = "ok"
        /\ (\E i \in 1..Len(samples) : samples[i] = JustBelowMinus10)
               => outcome # "ok"

\* C6 as amended: the rounding gives the same tolerance at both ends. A pulse
\* whose samples are 1e-9, -10.0000001 or in range is accepted; a pulse with
\* a sample -10.000001 (a whole 1e-6 below) is rejected as going below.
C6_RoundingTolerance ==
    ValidatedAgainstMinus10 =>
        /\ (\A i \in 1..Len(samples) :
                \/ samples[i] = OneNano
                \/ samples[i] = JustBelowMinus10
                \/ ExactlyInRange(samples[i]))
               => outcome = "ok"
        /\ (\E i \in 1..Len(samples) : samples[i] = MicroBelowMinus10)
               => outcome \in {"positive", "below"}
        /\ (/\ \E i \in 1..Len(samples) : samples[i] = MicroBelowMinus10
            /\ \A i \in 1..Len(samples) : ~IsPositive(samples[i]))
               => outcome = "below"

C6_Witness ==
    /\ ValidatedAgainstMinus10
    /\ outcome = "ok"
    /\ \E i \in 1..Len(samples) : samples[i] = OneNano
    /\ \E i \in 1..Len(samples) : samples[i] = JustBelowMinus10

\* r is a multiple of 1e-6 nearest to the sample x
NearestMicro(r, x) ==
    \/ r = x.micro /\ x.nano <= 500
    \/ r = x.micro + 1 /\ x.nano >= 500

AtLeast(r, b) == r > b.micro \/ (r = b.micro /\ b.nano = 0)

\* C9: validate_pulse returns normally iff the base validation passes, every
\* sample rounded to 6 decimals is <= 0 and, with bottom_detuning set, every
\* rounded sample is >= bottom_detuning; a positive rounded sample is
\* reported first; with bottom_detuning unset nothing is rejected as too low.
C9_ValidatePulse ==
    outcome # "none" =>
        LET bd == descriptor.bottom_detuning
            n == Len(round_detuning)
        IN /\ base_ok => /\ n = Len(samples)
                         /\ \A i \in 1..n :
                                NearestMicro(round_detuning[i], samples[i])
           /\ outcome = "ok" <=>
                  /\ base_ok
                  /\ \A i \in 1..n : round_detuning[i] <= 0
                  /\ bd.set => \A i \in 1..n : AtLeast(round_detuning[i], bd)
           /\ (base_ok /\ \E i \in 1..n : round_detuning[i] > 0)
                  => outcome = "positive"
           /\ ~bd.set => outcome # "below"
           /\ ~base_ok => outcome = "base_error"

C9_Witness ==
    /\ outcome = "positive"
    /\ descriptor.bottom_detuning.set
    /\ \E i \in 1..Len(round_detuning) :
           ~AtLeast(round_detuning[i], descriptor.bottom_detuning)

(***************************************************************************)
(* Schema documents. A document is a tree of mappings, sequences and       *)
(* scalars; in memory it is a set of objects. A heap node is               *)
(*     [kind |-> "dict" or "list", items |-> <<[k |-> key, v |-> value]>>] *)
(* with the items in insertion order (k = "" in a list).                   *)
(***************************************************************************)
Str(s) == [kind |-> "str", str |-> s, items |-> <<>>]
Dict(items) == [kind |-> "dict", str |-> "", items |-> items]
List(items) == [kind |-> "list", str |-> "", items |-> items]
Item(k, v) == [k |-> k, v |-> v]

\* json.load: builds the objects of tree t on heap h
RECURSIVE Load(_, _), LoadItems(_, _, _)
LoadItems(h, items, i) ==
    IF i > Len(items) THEN [heap |-> h, items |-> <<>>]
    ELSE LET first == Load(h, items[i].v)
             rest == LoadItems(first.heap, items, i + 1)
         IN [heap |-> rest.heap,
             items |-> <<Item(items[i].k, first.val)>> \o rest.items]
Load(h, t) ==
    IF t.kind = "str" THEN [heap |-> h, val |-> Scalar(t.str)]
    ELSE LET ch == LoadItems(h, t.items, 1)
         IN [heap |-> Append(ch.heap, [kind |-> t.kind, items |-> ch.items]),
             val |-> Ptr(Len(ch.heap) + 1)]

IsDict(h, val) == val.ptr # 0 /\ h[val.ptr].kind = "dict"
IsList(h, val) == val.ptr # 0 /\ h[val.ptr].kind = "list"
Keys(items) == {items[i].k : i \in 1..Len(items)}
Get(items, key) == items[CHOOSE i \in 1..Len(items) : items[i].k = key].v

\* the addresses reachable from val on heap h
RECURSIVE Reach(_, _)
Reach(h, val) ==
    IF val.ptr = 0 THEN {}
    ELSE {val.ptr} \cup
         UNION {Reach(h, h[val.ptr].items[i].v) : i \in 1..Len(h[val.ptr].items)}

(***************************************************************************)
(* resolve_references                                                      *)
(***************************************************************************)
\* "$ref" in schema and schema["$ref"] in registry. The documents keep the
\* value of "$ref" a string, as JSON Schema has it.
is_reference(items, reg) ==
    /\ "$ref" \in Keys(items)
    /\ Get(items, "$ref").ptr = 0
    /\ Get(items, "$ref").str \in DOMAIN reg

\* dict.pop(key): the entry is removed, the others keep their order
pop(items, key) == SelectSeq(items, LAMBDA e : e.k # key)

\* d[k] = v: an existing key keeps its place, a new key goes last
set_item(items, k, v) ==
    IF k \in Keys(items)
    THEN [i \in 1..Len(items) |->
             IF items[i].k = k THEN Item(k, v) ELSE items[i]]
    ELSE Append(items, Item(k, v))

\* a mutant of update: the node is replaced by the fragment
update_replace(items, other) == other

\* a mutant of update: an entry the node already has is kept (setdefault)
RECURSIVE update_keep_own(_, _)
update_keep_own(items, other) ==
    IF other = <<>> THEN items
    ELSE update_keep_own(
             IF Head(other).k \in Keys(items) THEN items
             ELSE Append(items, Head(other)),
             Tail(other))

\* schema.update(**other): every entry of other is set, in order
RECURSIVE update(_, _)
update(items, other) ==
    IF other = <<>> THEN items
    ELSE update(set_item(items, Head(other).k, Head(other).v), Tail(other))

RECURSIVE resolve_references(_, _, _), resolve_items(_, _, _, _)
\* the comprehensions: the values of items from the i-th on, resolved in order
resolve_items(h, items, i, reg) ==
    IF i > Len(items) THEN [heap |-> h, items |-> <<>>]
    ELSE LET first == resolve_references(h, items[i].v, reg)
             rest == resolve_items(first.heap, items, i + 1, reg)
         IN [heap |-> rest.heap,
             items |-> <<Item(items[i].k, first.val)>> \o rest.items]
resolve_references(h, val, reg) ==
    IF IsDict(h, val) THEN
        IF is_reference(h[val.ptr].items, reg) THEN
            \* v = schema.pop("$ref"); schema.update(**registry[v]); return schema
            LET a == val.ptr
                v == Get(h[a].items, "$ref").str
                h1 == [h EXCEPT ![a].items = pop(h[a].items, "$ref")]
                h2 == [h1 EXCEPT ![a].items = update(h1[a].items, h1[reg[v]].items)]
            IN [heap |-> h2, val |-> val]
        ELSE
            LET r == resolve_items(h, h[val.ptr].items, 1, reg)
            IN [heap |-> Append(r.heap, [kind |-> "dict", items |-> r.items]),
                val |-> Ptr(Len(r.heap) + 1)]
    ELSE IF IsList(h, val) THEN
        LET r == resolve_items(h, h[val.ptr].items, 1, reg)
        IN [heap |-> Append(r.heap, [kind |-> "list", items |-> r.items]),
            val |-> Ptr(Len(r.heap) + 1)]
    ELSE [heap |-> h, val |-> val]

(***************************************************************************)
(* SpecResolve: a document D and a registry R are loaded, and              *)
(* resolve_references(D, R) is called once.                                *)
(***************************************************************************)
RefValues == {"a.json", "b.json", "zz.json"}   \* "zz.json" is never a key of R

\* the entries a mapping may hold: an optional "$ref" and an optional "x"
RefEntries == {<<>>} \cup {<<Item("$ref", Str(r))>> : r \in RefValues}
XEntries(sub) == {<<>>} \cup {<<Item("x", t)>> : t \in sub}

DictsOver(sub) == {Dict(r \o x) : r \in RefEntries, x \in XEntries(sub)}
ListsOver(sub) == {List(<<>>)} \cup {List(<<Item("", t)>>) : t \in sub}

\* the documents of nesting depth at most d
RECURSIVE Docs(_)
Docs(d) ==
    IF d = 0 THEN {Str("1")}
    ELSE LET sub == Docs(d - 1)
         IN {Str("1")} \cup DictsOver(sub) \cup ListsOver(sub)

\* sequences of two elements, to see the order of a sequence kept
Pairs(sub, flat) == {List(<<Item("", t), Item("", u)>>) : t \in sub, u \in flat}

InputDocs == Docs(MaxDepth) \cup Pairs(Docs(MaxDepth - 2), Docs(1))

\* the fragment of "a.json": any mapping two levels shallower than D
FragmentsA == {t \in Docs(MaxDepth - 2) : t.kind = "dict"}
FragmentB == Dict(<<Item("y", Str("b"))>>)

InitResolve ==
    /\ \E fa \in FragmentsA, d \in InputDocs :
          LET la == Load(<<>>, fa)
              lb == Load(la.heap, FragmentB)
              ld == Load(lb.heap, d)
          IN /\ heap = ld.heap
             /\ registry = ("a.json" :> la.val.ptr) @@ ("b.json" :> lb.val.ptr)
             /\ schema = ld.val
    /\ heap0 = heap
    /\ result = NoValue
    /\ NamesIdle /\ DMMIdle /\ FastInitIdle
    /\ pc = "loaded"

Resolve ==
    /\ pc = "loaded"
    /\ LET r == resolve_references(heap, schema, registry)
       IN /\ heap' = r.heap
          /\ result' = r.val
    /\ heap0' = heap
    /\ pc' = "resolved"
    /\ UNCHANGED <<registry, schema, namesVars, dmmVars, initVars>>

NextResolve == Resolve

SpecResolve == InitResolve /\ [][NextResolve]_vars

(***************************************************************************)
(* Claims about resolve_references.                                        *)
(***************************************************************************)
Resolved == pc = "resolved"

\* the mapping nodes of a document
DictNodes(h, val) == {a \in Reach(h, val) : h[a].kind = "dict"}
HasRef(h, a) == "$ref" \in Keys(h[a].items)
\* a "$ref" entry whose value is a key of the registry
Resolvable(h, a) == HasRef(h, a) /\ is_reference(h[a].items, registry)
Unresolvable(h, a) == HasRef(h, a) /\ ~is_reference(h[a].items, registry)

EveryRefIsAKey == \A a \in DictNodes(heap0, schema) : ~Unresolvable(heap0, a)

\* C1: when every "$ref" value of D is a key of R, the returned document has
\* no mapping node, at any depth, with a "$ref" whose value is a key of R.
C1_NoResolvableRefLeft ==
    (Resolved /\ EveryRefIsAKey) =>
        \A a \in DictNodes(heap, result) : ~Resolvable(heap, a)

\* the items of the node at val, and the value under key k / at index i
ItemsAt(h, val) == h[val.ptr].items
SameRefAt(vb, va) ==
    /\ IsDict(heap, va)
    /\ "$ref" \in Keys(ItemsAt(heap, va))
    /\ Get(ItemsAt(heap, va), "$ref") = Get(ItemsAt(heap0, vb), "$ref")
    /\ Keys(ItemsAt(heap, va)) = Keys(ItemsAt(heap0, vb))

\* Position by position, D (vb, on heap0) against the returned document (va,
\* on heap): a node of D with an unresolvable "$ref" is found at the same
\* place with the same "$ref" and the same keys. With exempt, the places
\* under a resolved reference node that the merged fragment overwrote are
\* not looked at.
RECURSIVE KeptInPlace(_, _, _)
KeptInPlace(vb, va, exempt) ==
    IF vb.ptr = 0 THEN TRUE
    ELSE LET b == ItemsAt(heap0, vb)
         IN IF IsList(heap0, vb)
            THEN /\ IsList(heap, va)
                 /\ Len(ItemsAt(heap, va)) = Len(b)
                 /\ \A i \in 1..Len(b) :
                        KeptInPlace(b[i].v, ItemsAt(heap, va)[i].v, exempt)
            ELSE /\ Unresolvable(heap0, vb.ptr) => SameRefAt(vb, va)
                 /\ \A i \in 1..Len(b) :
                        LET overwritten ==
                                /\ Resolvable(heap0, vb.ptr)
                                /\ b[i].k \in Keys(ItemsAt(heap0,
                                       Ptr(registry[Get(b, "$ref").str])))
                        IN \/ b[i].k = "$ref"
                           \/ b[i].v.ptr = 0
                           \/ exempt /\ overwritten
                           \/ /\ IsDict(heap, va)
                              /\ b[i].k \in Keys(ItemsAt(heap, va))
                              /\ KeptInPlace(b[i].v,
                                     Get(ItemsAt(heap, va), b[i].k), exempt)

\* C2 as stated: every mapping node of D with a "$ref" that is not a key of R
\* has that same "$ref" in the returned document, nothing merged into it.
C2_Original == Resolved => KeptInPlace(schema, result, FALSE)

\* C2 as amended: every such node object is left exactly as it was, and it is
\* found at its place in the returned document unless it lies under an entry
\* of a resolved reference node that the merged fragment overwrote.
C2_UnresolvableUntouched ==
    Resolved =>
        /\ \A a \in DictNodes(heap0, schema) :
               Unresolvable(heap0, a) => heap[a] = heap0[a]
        /\ KeptInPlace(schema, result, TRUE)

\* an unresolvable node under an entry of a resolved reference node that the
\* fragment does not overwrite, and a copy of one outside any reference node
C2_Witness ==
    /\ Resolved
    /\ IsDict(heap0, schema)
    /\ ~HasRef(heap0, schema.ptr)
    /\ \E a \in DictNodes(heap0, schema), c \in DictNodes(heap0, schema) :
           /\ Resolvable(heap0, a)
           /\ c # a
           /\ c \in Reach(heap0, Ptr(a))
           /\ Unresolvable(heap0, c)
           /\ c \in Reach(heap, result)

\* the objects under val are on heap what they were on heap0
LeftAsItWas(val) == \A a \in Reach(heap0, val) : heap[a] = heap0[a]
NoKeyTwice(items) == \A i, j \in 1..Len(items) : items[i].k = items[j].k => i = j
FreshNode(val) == val.ptr > Len(heap0)

\* C10, position by position. A resolvable reference node comes back as the
\* same object, its keys (own keys minus "$ref") plus the fragment's, the
\* fragment's value on every key of the fragment, its own value elsewhere,
\* and nothing under it resolved. Any other mapping comes back as a new
\* mapping with the same keys and resolved values; a sequence as a new
\* sequence of the same length and order.
RECURSIVE SingleLevelMerge(_, _)
SingleLevelMerge(vb, va) ==
    IF vb.ptr = 0 THEN va = vb
    ELSE LET b == ItemsAt(heap0, vb)
             a == ItemsAt(heap, va)
         IN IF IsDict(heap0, vb) /\ Resolvable(heap0, vb.ptr)
            THEN LET frag == ItemsAt(heap0, Ptr(registry[Get(b, "$ref").str]))
                 IN /\ va = vb
                    /\ NoKeyTwice(a)
                    /\ Keys(a) = (Keys(b) \ {"$ref"}) \cup Keys(frag)
                    /\ \A k \in Keys(frag) : Get(a, k) = Get(frag, k)
                    /\ \A k \in (Keys(b) \ {"$ref"}) \ Keys(frag) :
                           Get(a, k) = Get(b, k)
                    /\ \A i \in 1..Len(a) : LeftAsItWas(a[i].v)
                    /\ \A i \in 1..Len(b) : LeftAsItWas(b[i].v)
            ELSE /\ va.ptr # 0
                 /\ FreshNode(va)
                 /\ heap[va.ptr].kind = heap0[vb.ptr].kind
                 /\ Len(a) = Len(b)
                 /\ \A i \in 1..Len(b) :
                        /\ a[i].k = b[i].k
                        /\ SingleLevelMerge(b[i].v, a[i].v)

C10_SingleLevelMerge == Resolved => SingleLevelMerge(schema, result)

\* a reference node below the root whose fragment overwrites its "x" entry
\* and brings a resolvable "$ref" of its own, which is left unresolved
C10_Witness ==
    /\ Resolved
    /\ \E a \in DictNodes(heap0, schema) :
           /\ Ptr(a) # schema
           /\ Resolvable(heap0, a)
           /\ "x" \in Keys(heap0[a].items)
           /\ "x" \in Keys(heap0[registry[Get(heap0[a].items, "$ref").str]].items)
           /\ Get(heap[a].items, "x") # Get(heap0[a].items, "x")
           /\ Resolvable(heap, a)

(***************************************************************************)
(* SpecFastInit: the module body under USE_FASTJSONSCHEMA. SCHEMAS holds   *)
(* the five loaded schema files; registry points into them; VALIDATORS is  *)
(* built by resolving the five schemas in order.                           *)
(***************************************************************************)
RegistryKeys == {"device-schema.json", "layout-schema.json",
                 "register-schema.json", "noise-schema.json"}

\* a schema node: a plain one, or a reference to one of the schema files
SchemaNodes ==
    {[kind |-> "dict", items |-> <<Item("type", Scalar("object"))>>]} \cup
    {[kind |-> "dict", items |-> <<Item("$ref", Scalar(k))>>] : k \in RegistryKeys}

\* a schema file with definitions (its own "$ref" is a local pointer), the
\* definitions object, and a schema file without definitions
WithDefinitions(defs) ==
    [kind |-> "dict",
     items |-> <<Item("$ref", Scalar("#/definitions/X")),
                 Item("definitions", Ptr(defs))>>]
Holding(key, a) == [kind |-> "dict", items |-> <<Item(key, Ptr(a))>>]

\* the objects of SCHEMAS, as the package loads the five files: the SCHEMAS
\* dict is the last object
SchemasHeap(sq, dv, ly, rg, ns) ==
    << sq, dv, ly, rg, ns,
       Holding("X", 1), Holding("X", 2), Holding("X", 3), Holding("X", 4),
       Holding("X", 5),
       Holding("properties", 6), WithDefinitions(7), WithDefinitions(8),
       WithDefinitions(9), Holding("properties", 10),
       [kind |-> "dict",
        items |-> <<Item("sequence", Ptr(11)), Item("device", Ptr(12)),
                    Item("layout", Ptr(13)), Item("register", Ptr(14)),
                    Item("noise", Ptr(15))>>] >>

Order == <<"sequence", "device", "layout", "register", "noise">>

\* SCHEMAS[name] and SCHEMAS[name]["definitions"] on heap h
SchemaOf(h, schemas, name) == Get(h[schemas].items, name)
DefinitionsOf(h, schemas, name) ==
    Get(h[SchemaOf(h, schemas, name).ptr].items, "definitions")

\* the registry literal of the module
BuildRegistry(h, schemas) ==
    ("device-schema.json" :> DefinitionsOf(h, schemas, "device").ptr)
    @@ ("layout-schema.json" :> DefinitionsOf(h, schemas, "layout").ptr)
    @@ ("register-schema.json" :> DefinitionsOf(h, schemas, "register").ptr)
    @@ ("noise-schema.json" :> SchemaOf(h, schemas, "noise").ptr)

\* the content of the object at val, down to depth d (the merges can close
\* a cycle, so the content is read to a depth)
RECURSIVE TreeTo(_, _, _)
TreeTo(h, val, d) ==
    IF val.ptr = 0 THEN Str(val.str)
    ELSE IF d = 0 THEN Str("...")
    ELSE LET node == h[val.ptr]
         IN [kind |-> node.kind, str |-> "",
             items |-> [i \in 1..Len(node.items) |->
                           Item(node.items[i].k,
                                TreeTo(h, node.items[i].v, d - 1))]]

Content(h, reg) == [k \in DOMAIN reg |-> TreeTo(h, Ptr(reg[k]), MaxDepth)]

InitFastInit ==
    /\ \E sq, dv, ly, rg, ns \in SchemaNodes :
          /\ heap = SchemasHeap(sq, dv, ly, rg, ns)
          /\ SCHEMAS = Len(heap)
    /\ registry = BuildRegistry(heap, SCHEMAS)
    /\ registry0 = Content(heap, registry)
    /\ VALIDATORS = <<>>
    /\ heap0 = heap
    /\ schema = NoValue
    /\ result = NoValue
    /\ NamesIdle /\ DMMIdle
    /\ pc = "init"

\* one step of the VALIDATORS comprehension:
\* fastjsonschema.compile(resolve_references(SCHEMAS[name], registry))
CompileNext ==
    /\ pc = "init"
    /\ LET n == Cardinality(DOMAIN VALIDATORS)
           name == Order[n + 1]
           r == resolve_references(heap, SchemaOf(heap, SCHEMAS, name), registry)
       IN /\ schema' = SchemaOf(heap, SCHEMAS, name)
          /\ heap0' = heap
          /\ heap' = r.heap
          /\ result' = r.val
          /\ VALIDATORS' = VALIDATORS @@ (name :> r.val)
          /\ pc' = IF n + 1 = Len(Order) THEN "ready" ELSE "init"
    /\ UNCHANGED <<SCHEMAS, registry, registry0, namesVars, dmmVars>>

NextFastInit == CompileNext

SpecFastInit == InitFastInit /\ [][NextFastInit]_vars

\* C3: after the five calls, the content of every registry fragment is what
\* it was when the registry was built.
C3_RegistryImmutable ==
    pc = "ready" =>
        \A k \in DOMAIN registry : Content(heap, registry)[k] = registry0[k]

=============================================================================
